---- MODULE Spec2Model ----
(***************************************************************************)
(* Audio-response pipeline of fastAPI/core/tts_services.py: the text       *)
(* sanitizer and the orchestrator generate_audio_response, text_to_speech  *)
(* with the shared audio cache and the gTTS engine, and the language       *)
(* classifier detect_language.                                             *)
(*                                                                         *)
(* A text is a sequence of Unicode code points (decimal).  Python's None   *)
(* is the string "None" (the text None is NoText); audio bytes are short    *)
(* strings, b'' is "".                                                     *)
(***************************************************************************)
EXTENDS Integers, Sequences, FiniteSets, TLC

None == "None"

\* a text argument that is None instead of a str
NoText == <<0 - 1>>

(***************************************************************************)
(* Character classes of Python's re module on str patterns.                *)
(***************************************************************************)

\* \w on the ASCII and Devanagari blocks: str.isalnum() or "_".  Devanagari
\* vowel signs, virama, anusvara and the danda are NOT word characters.
IsWordChar(c) ==
  \/ c \in 48..57 \/ c \in 65..90 \/ c = 95 \/ c \in 97..122
  \/ c \in 2308..2361 \/ c = 2365 \/ c = 2384 \/ c \in 2392..2401
  \/ c \in 2406..2415 \/ c \in 2417..2431

\* \s, and the characters str.strip() removes
IsSpace(c) == c \in 9..13 \/ c \in 28..32 \/ c = 133 \/ c = 160

\* [\u0900-\u097F]
IsDevanagari(c) == c \in 2304..2431

\* [A-Za-z]
IsLatin(c) == c \in 65..90 \/ c \in 97..122

\* w occurs in text starting at position i
OccursAt(text, w, i) ==
  /\ i >= 1
  /\ i + Len(w) - 1 <= Len(text)
  /\ \A k \in 1..Len(w) : text[i + k - 1] = w[k]

\* Python's "w in text"
Contains(text, w) == \E i \in 1..(Len(text) - Len(w) + 1) : OccursAt(text, w, i)

\* \b at the gap before position i (i in 1..Len(text)+1)
WordBoundary(text, i) ==
  LET before == i >= 2 /\ i - 1 <= Len(text) /\ IsWordChar(text[i - 1])
      after  == i >= 1 /\ i <= Len(text) /\ IsWordChar(text[i])
  IN  before # after

\* re.search(r'\b w1 \b') and re.search(r'\b w1 \s+ w2 \b')
PatternSearch(p, text) ==
  LET w1 == p[1]
      w2 == p[2]
  IN  \E i \in 1..Len(text) :
        /\ text[i] = w1[1]
        /\ OccursAt(text, w1, i)
        /\ WordBoundary(text, i)
        /\ IF w2 = <<>>
           THEN WordBoundary(text, i + Len(w1))
           ELSE \E k \in 1..(Len(text) - i - Len(w1)) :
                  /\ \A s \in (i + Len(w1))..(i + Len(w1) + k - 1) : IsSpace(text[s])
                  /\ OccursAt(text, w2, i + Len(w1) + k)
                  /\ WordBoundary(text, i + Len(w1) + k + Len(w2))

\* re.search(r'w[\u0964\s]*$'): w followed only by dandas and whitespace
EndsWith(text, w) ==
  \E i \in 1..(Len(text) - Len(w) + 1) :
    /\ OccursAt(text, w, i)
    /\ \A s \in (i + Len(w))..Len(text) : text[s] = 2404 \/ IsSpace(text[s])

(***************************************************************************)
(* detect_language                                                         *)
(***************************************************************************)

\* 28 patterns; each <<w1, w2>> is the regex \b w1 (\s+ w2)? \b, code points in decimal
marathi_patterns ==
  <<
    <<<<2330, 2381, 2351, 2366>>, <<>>>>,   \* line 38: \b\u091A\u094D\u092F\u093E\b
    <<<<2340, 2381, 2351, 2366>>, <<>>>>,   \* line 38: \b\u0924\u094D\u092F\u093E\b
    <<<<2361, 2381, 2351, 2366>>, <<>>>>,   \* line 38: \b\u0939\u094D\u092F\u093E\b
    <<<<2310, 2346, 2354, 2381, 2351, 2366>>, <<>>>>,   \* line 39: \b\u0906\u092A\u0932\u094D\u092F\u093E\b
    <<<<2340, 2381, 2351, 2366, 2306, 2330, 2381, 2351, 2366>>, <<>>>>,   \* line 39: \b\u0924\u094D\u092F\u093E\u0902\u091A\u094D\u092F\u093E\b
    <<<<2340, 2367, 2330, 2381, 2351, 2366>>, <<>>>>,   \* line 39: \b\u0924\u093F\u091A\u094D\u092F\u093E\b
    <<<<2309, 2360, 2375, 2354>>, <<>>>>,   \* line 40: \b\u0905\u0938\u0947\u0932\b
    <<<<2361, 2379, 2340, 2379>>, <<>>>>,   \* line 40: \b\u0939\u094B\u0924\u094B\b
    <<<<2361, 2379, 2340, 2375>>, <<>>>>,   \* line 40: \b\u0939\u094B\u0924\u0947\b
    <<<<2361, 2379, 2340, 2368>>, <<>>>>,   \* line 40: \b\u0939\u094B\u0924\u0940\b
    <<<<2333, 2366, 2354, 2375>>, <<>>>>,   \* line 41: \b\u091D\u093E\u0932\u0947\b
    <<<<2333, 2366, 2354, 2366>>, <<>>>>,   \* line 41: \b\u091D\u093E\u0932\u093E\b
    <<<<2333, 2366, 2354, 2368>>, <<>>>>,   \* line 41: \b\u091D\u093E\u0932\u0940\b
    <<<<2325, 2375, 2354, 2375>>, <<>>>>,   \* line 42: \b\u0915\u0947\u0932\u0947\b
    <<<<2325, 2375, 2354, 2366>>, <<>>>>,   \* line 42: \b\u0915\u0947\u0932\u093E\b
    <<<<2325, 2375, 2354, 2368>>, <<>>>>,   \* line 42: \b\u0915\u0947\u0932\u0940\b
    <<<<2310, 2354, 2379>>, <<>>>>,   \* line 43: \b\u0906\u0932\u094B\b
    <<<<2310, 2354, 2368>>, <<>>>>,   \* line 43: \b\u0906\u0932\u0940\b
    <<<<2310, 2354, 2375>>, <<>>>>,   \* line 43: \b\u0906\u0932\u0947\b
    <<<<2327, 2375, 2354, 2379>>, <<>>>>,   \* line 44: \b\u0917\u0947\u0932\u094B\b
    <<<<2327, 2375, 2354, 2368>>, <<>>>>,   \* line 44: \b\u0917\u0947\u0932\u0940\b
    <<<<2327, 2375, 2354, 2375>>, <<>>>>,   \* line 44: \b\u0917\u0947\u0932\u0947\b
    <<<<2346, 2366, 2361, 2367, 2332, 2375>>, <<>>>>,   \* line 45: \b\u092A\u093E\u0939\u093F\u091C\u0947\b
    <<<<2344, 2325, 2379>>, <<>>>>,   \* line 45: \b\u0928\u0915\u094B\b
    <<<<2354, 2366, 2327, 2340, 2375>>, <<>>>>,   \* line 45: \b\u0932\u093E\u0917\u0924\u0947\b
    <<<<2360, 2366, 2306, 2327, 2367, 2340, 2354, 2375>>, <<>>>>,   \* line 46: \b\u0938\u093E\u0902\u0917\u093F\u0924\u0932\u0947\b
    <<<<2348, 2379, 2354, 2354, 2379>>, <<>>>>,   \* line 46: \b\u092C\u094B\u0932\u0932\u094B\b
    <<<<2357, 2367, 2330, 2366, 2352, 2354, 2375>>, <<>>>>   \* line 46: \b\u0935\u093F\u091A\u093E\u0930\u0932\u0947\b
  >>

\* 33 patterns; each <<w1, w2>> is the regex \b w1 (\s+ w2)? \b, code points in decimal
hindi_patterns ==
  <<
    <<<<2361, 2376, 2306>>, <<>>>>,   \* line 51: \b\u0939\u0948\u0902\b
    <<<<2361, 2376>>, <<>>>>,   \* line 51: \b\u0939\u0948\b
    <<<<2341, 2366>>, <<>>>>,   \* line 51: \b\u0925\u093E\b
    <<<<2341, 2368>>, <<>>>>,   \* line 51: \b\u0925\u0940\b
    <<<<2341, 2375>>, <<>>>>,   \* line 51: \b\u0925\u0947\b
    <<<<2325, 2352, 2340, 2366>>, <<2361, 2376>>>>,   \* line 52: \b\u0915\u0930\u0924\u093E\s+\u0939\u0948\b
    <<<<2325, 2352, 2340, 2368>>, <<2361, 2376>>>>,   \* line 52: \b\u0915\u0930\u0924\u0940\s+\u0939\u0948\b
    <<<<2325, 2352, 2340, 2375>>, <<2361, 2376, 2306>>>>,   \* line 52: \b\u0915\u0930\u0924\u0947\s+\u0939\u0948\u0902\b
    <<<<2361, 2379, 2340, 2366>>, <<2361, 2376>>>>,   \* line 53: \b\u0939\u094B\u0924\u093E\s+\u0939\u0948\b
    <<<<2361, 2379, 2340, 2368>>, <<2361, 2376>>>>,   \* line 53: \b\u0939\u094B\u0924\u0940\s+\u0939\u0948\b
    <<<<2361, 2379, 2340, 2375>>, <<2361, 2376, 2306>>>>,   \* line 53: \b\u0939\u094B\u0924\u0947\s+\u0939\u0948\u0902\b
    <<<<2330, 2366, 2361, 2367, 2319>>, <<>>>>,   \* line 54: \b\u091A\u093E\u0939\u093F\u090F\b
    <<<<2360, 2325, 2340, 2366>>, <<>>>>,   \* line 54: \b\u0938\u0915\u0924\u093E\b
    <<<<2360, 2325, 2340, 2368>>, <<>>>>,   \* line 54: \b\u0938\u0915\u0924\u0940\b
    <<<<2360, 2325, 2340, 2375>>, <<>>>>,   \* line 54: \b\u0938\u0915\u0924\u0947\b
    <<<<2352, 2361, 2366>>, <<2361, 2376>>>>,   \* line 55: \b\u0930\u0939\u093E\s+\u0939\u0948\b
    <<<<2352, 2361, 2368>>, <<2361, 2376>>>>,   \* line 55: \b\u0930\u0939\u0940\s+\u0939\u0948\b
    <<<<2352, 2361, 2375>>, <<2361, 2376, 2306>>>>,   \* line 55: \b\u0930\u0939\u0947\s+\u0939\u0948\u0902\b
    <<<<2327, 2351, 2366>>, <<>>>>,   \* line 56: \b\u0917\u092F\u093E\b
    <<<<2327, 2312>>, <<>>>>,   \* line 56: \b\u0917\u0908\b
    <<<<2327, 2319>>, <<>>>>,   \* line 56: \b\u0917\u090F\b
    <<<<2310, 2351, 2366>>, <<>>>>,   \* line 57: \b\u0906\u092F\u093E\b
    <<<<2310, 2312>>, <<>>>>,   \* line 57: \b\u0906\u0908\b
    <<<<2310, 2319>>, <<>>>>,   \* line 57: \b\u0906\u090F\b
    <<<<2325, 2367, 2351, 2366>>, <<>>>>,   \* line 58: \b\u0915\u093F\u092F\u093E\b
    <<<<2325, 2368>>, <<>>>>,   \* line 58: \b\u0915\u0940\b
    <<<<2325, 2367, 2319>>, <<>>>>,   \* line 58: \b\u0915\u093F\u090F\b
    <<<<2354, 2367, 2319>>, <<>>>>,   \* line 59: \b\u0932\u093F\u090F\b
    <<<<2342, 2381, 2357, 2366, 2352, 2366>>, <<>>>>,   \* line 59: \b\u0926\u094D\u0935\u093E\u0930\u093E\b
    <<<<2309, 2341, 2357, 2366>>, <<>>>>,   \* line 59: \b\u0905\u0925\u0935\u093E\b
    <<<<2340, 2341, 2366>>, <<>>>>,   \* line 60: \b\u0924\u0925\u093E\b
    <<<<2319, 2357, 2306>>, <<>>>>,   \* line 60: \b\u090F\u0935\u0902\b
    <<<<2361, 2375, 2340, 2369>>, <<>>>>   \* line 60: \b\u0939\u0947\u0924\u0941\b
  >>

AAHE  == <<2310, 2361, 2375>>         \* \u0906\u0939\u0947
AAHET == <<2310, 2361, 2375, 2340>>   \* \u0906\u0939\u0947\u0924
HAI   == <<2361, 2376>>               \* \u0939\u0948
HAIN  == <<2361, 2376, 2306>>         \* \u0939\u0948\u0902

\* line 76: government/official Hindi terms
hindi_domain_words ==
  << <<2360, 2352, 2325, 2366, 2352>>, <<2351, 2379, 2332, 2344, 2366>>,
     <<2350, 2306, 2340, 2381, 2352, 2366, 2354, 2351>>, <<2357, 2367, 2349, 2366, 2327>>,
     <<2309, 2343, 2367, 2360, 2370, 2330, 2344, 2366>>, <<2342, 2367, 2344, 2366, 2306, 2325>> >>

\* line 80: common Marathi daily-use words
marathi_daily_words ==
  << <<2348, 2352, 2306>>, <<2344, 2325, 2381, 2325, 2368>>, <<2326, 2352, 2306, 2330>>,
     <<2325, 2343, 2368>>, <<2325, 2369, 2336, 2375>>, <<2325, 2360, 2306>> >>

\* sum(1 for pattern in patterns if re.search(pattern, text))
TableScore(patterns, text) ==
  Cardinality({n \in 1..Len(patterns) : PatternSearch(patterns[n], text)})

\* any(word in text for word in words)
AnyWordIn(words, text) == \E n \in 1..Len(words) : Contains(text, words[n])

\* mutant: the Marathi copula earns one point instead of two
MarathiCopulaBonus_OnePoint(text) ==
  IF Contains(text, AAHE) /\ ~Contains(text, HAI) THEN 1 ELSE 0

\* mutant: the elif of line 71 asks for both Hindi copula forms
HindiCopulaBonus_BothForms(text) ==
  IF Contains(text, AAHE) /\ ~Contains(text, HAI) THEN 0
  ELSE IF Contains(text, HAI) /\ Contains(text, HAIN) THEN 2 ELSE 0

\* the points the copula check gives Marathi and Hindi (lines 69-72)
MarathiCopulaBonus(text) ==
  IF Contains(text, AAHE) /\ ~Contains(text, HAI) THEN 2 ELSE 0

HindiCopulaBonus(text) ==
  IF Contains(text, AAHE) /\ ~Contains(text, HAI) THEN 0
  ELSE IF Contains(text, HAI) \/ Contains(text, HAIN) THEN 2 ELSE 0

\* the scores before the sentence-ending check (lines 64-81)
marathi_score(text) ==
  TableScore(marathi_patterns, text) + MarathiCopulaBonus(text)
    + (IF AnyWordIn(marathi_daily_words, text) THEN 1 ELSE 0)

hindi_score(text) ==
  TableScore(hindi_patterns, text) + HindiCopulaBonus(text)
    + (IF AnyWordIn(hindi_domain_words, text) THEN 1 ELSE 0)

Abs(n) == IF n < 0 THEN 0 - n ELSE n

\* the scores after the sentence-ending check (lines 84-90), as <<marathi, hindi>>
FinalScores(text) ==
  LET m == marathi_score(text)
      h == hindi_score(text)
  IN  IF Abs(m - h) <= 1
      THEN IF EndsWith(text, AAHE) \/ EndsWith(text, AAHET) THEN <<m + 1, h>>
           ELSE IF EndsWith(text, HAI) \/ EndsWith(text, HAIN) THEN <<m, h + 1>>
           ELSE <<m, h>>
      ELSE <<m, h>>

\* mutant: line 93 compares with >=, so a tie goes to Marathi
detect_language_TieToMarathi(avail, text) ==
  IF ~avail THEN "en"
  ELSE IF text = NoText THEN "en"
  ELSE IF \E i \in 1..Len(text) : IsDevanagari(text[i])
       THEN LET s == FinalScores(text)
            IN  IF s[1] >= s[2] THEN "mr" ELSE "hi"
       ELSE "en"

\* detect_language(text) with the module flag TTS_AVAILABLE = avail
detect_language(avail, text) ==
  IF ~avail THEN "en"
  ELSE IF text = NoText THEN "en"   \* re.search raises, lines 102-104
  ELSE IF \E i \in 1..Len(text) : IsDevanagari(text[i])
       THEN LET s == FinalScores(text)
            IN  IF s[1] > s[2] THEN "mr" ELSE "hi"
       ELSE "en"

(***************************************************************************)
(* The text cleaning of generate_audio_response (lines 163-165)            *)
(***************************************************************************)

\* the end of the leftmost-shortest match of \[.*?\/] starting at i, or 0:
\* "[" at i, then the first "/]" after it with no newline in between
BracketEnd(text, i) ==
  LET ends == {j \in (i + 1)..(Len(text) - 1) :
                 /\ text[j] = 47 /\ text[j + 1] = 93
                 /\ \A k \in (i + 1)..(j - 1) : text[k] # 10}
  IN  IF text[i] = 91 /\ ends # {}
      THEN (CHOOSE j \in ends : \A k \in ends : j <= k) + 1
      ELSE 0

RECURSIVE RemoveBracketed(_, _)
\* re.sub(r'\[.*?\/]', '', text), scanning from position i
RemoveBracketed(text, i) ==
  IF i > Len(text) THEN <<>>
  ELSE IF BracketEnd(text, i) # 0 THEN RemoveBracketed(text, BracketEnd(text, i) + 1)
  ELSE <<text[i]>> \o RemoveBracketed(text, i + 1)

\* the character class of line 164: U+2705 U+2139 U+FE0F U+1F50D U+26A0 * U+25CF # =
IsDecoration(c) == c \in {9989, 8505, 65039, 128269, 9888, 42, 9679, 35, 61}

RemoveDecorations(text) == SelectSeq(text, LAMBDA c : ~IsDecoration(c))

RECURSIVE CollapseSpaces(_, _)
\* re.sub(r'\s+', ' ', text), scanning from position i
CollapseSpaces(text, i) ==
  IF i > Len(text) THEN <<>>
  ELSE IF IsSpace(text[i])
       THEN IF i > 1 /\ IsSpace(text[i - 1])
            THEN CollapseSpaces(text, i + 1)
            ELSE <<32>> \o CollapseSpaces(text, i + 1)
       ELSE <<text[i]>> \o CollapseSpaces(text, i + 1)

\* str.strip()
Strip(text) ==
  LET keep == {i \in 1..Len(text) : ~IsSpace(text[i])}
  IN  IF keep = {} THEN <<>>
      ELSE SubSeq(text, CHOOSE i \in keep : \A k \in keep : i <= k,
                        CHOOSE i \in keep : \A k \in keep : i >= k)

\* clean_text of lines 163-165; text is a str
Sanitize(text) == Strip(CollapseSpaces(RemoveDecorations(RemoveBracketed(text, 1)), 1))

(***************************************************************************)
(* Bounds and input domains                                                *)
(***************************************************************************)

\* calls to generate_audio_response in one behaviour
MaxCalls == 2

\* words in one classifier input
MaxWords == 3

\* the classifier's inputs are sentences of up to MaxWords of these words, joined
\* by single spaces
Vocabulary ==
  << <<2361, 2376>>,                                  \* \u0939\u0948 (Hindi copula)
     <<2361, 2376, 2306>>,                            \* \u0939\u0948\u0902
     <<2310, 2361, 2375>>,                            \* \u0906\u0939\u0947 (Marathi copula)
     <<2310, 2361, 2375, 2340>>,                      \* \u0906\u0939\u0947\u0924
     <<2309, 2360, 2375, 2354>>,                      \* \u0905\u0938\u0947\u0932 (Marathi table)
     <<2340, 2381, 2351, 2366, 2306, 2330, 2381, 2351, 2366, 2325, 2337, 2375>>,
                                                      \* \u0924\u094D\u092F\u093E\u0902\u091A\u094D\u092F\u093E\u0915\u0921\u0947
     <<2325, 2343, 2368>>,                            \* \u0915\u0927\u0940 (Marathi daily word)
     <<2330, 2366, 2361, 2367, 2319>>,                \* \u091A\u093E\u0939\u093F\u090F (Hindi table)
     <<2327, 2351, 2366>>,                            \* \u0917\u092F\u093E (Hindi table)
     <<2354, 2367, 2319>>,                            \* \u0932\u093F\u090F (Hindi table)
     <<2351, 2379, 2332, 2344, 2366>>,                \* \u092F\u094B\u091C\u0928\u093E (official term)
     <<2404>>,                                        \* \u0964 (danda)
     <<104, 101, 108, 108, 111>> >>                   \* hello

Workers == {"w1", "w2"}

\* raw texts: None; "#ab  c " (cleans to the 4 characters "ab c");
\* "[x/] a  b c *" (cleans to the 5 characters "a b c");
\* "yojana  aahe" in Devanagari (9 characters once cleaned, Marathi)
RawTexts ==
  { NoText,
    <<35, 97, 98, 32, 32, 99, 32>>,
    <<91, 120, 47, 93, 32, 97, 32, 32, 98, 32, 99, 32, 42>>,
    <<2351, 2379, 2332, 2344, 2366, 32, 32, 2310, 2361, 2375>> }

\* lang_preference values: the default, a supported code, an unsupported code,
\* the empty string and None
Preferences == {"auto", "hi", "fr", "", None}

\* speed in tenths: 1.0
Speeds == {10}

\* bytes the engine can write; it may also raise
EngineBytes == {"a1", "a2", ""}

Supported == {"en", "hi", "mr"}

(***************************************************************************)
(* core.cache_manager                                                      *)
(***************************************************************************)

\* the key of (utterance, language, speed): a deterministic fingerprint
get_audio_hash(text, lang, speed) == <<text, lang, speed>>

\* the stored bytes or None
get_cached_audio(cache, audio_hash) ==
  IF audio_hash \in DOMAIN cache THEN cache[audio_hash] ELSE None

\* store bytes under the key
cache_audio(cache, audio_hash, audio_bytes) ==
  [k \in DOMAIN cache \cup {audio_hash} |->
     IF k = audio_hash THEN audio_bytes ELSE cache[k]]

(***************************************************************************)
(* text_to_speech and generate_audio_response: the pure parts              *)
(***************************************************************************)

\* Python truthiness of a str, bytes or None value
Truthy(v) == v # None /\ v # ""

\* line 167: minimum length for meaningful TTS
MinLength == 5

\* mutant: the length gate is off by one
TooShort_OffByOne(clean_text) == Len(clean_text) < MinLength - 1

TooShort(clean_text) == Len(clean_text) < MinLength

\* lines 168 and 187: lang_preference if lang_preference != 'auto' else 'en'
PreferenceOrEn(lang_preference) ==
  IF lang_preference # "auto" THEN lang_preference ELSE "en"

\* line 170
TargetLang(lang_preference) ==
  IF Truthy(lang_preference) /\ lang_preference # "auto" THEN lang_preference ELSE None

\* lines 116-118
ResolveLang(avail, text, lang, auto_detect) ==
  IF auto_detect \/ ~Truthy(lang) THEN detect_language(avail, text) ELSE lang

\* mutant: the language check of line 121 is missing
LangAllowed_Any(lang) == TRUE

\* line 121: only en, hi, mr reach the cache and the engine
LangAllowed(lang) == lang \in {"en", "hi", "mr"}

\* mutant: the lookup's result is ignored
CacheHit_Never(cached_audio) == FALSE

\* line 127: if cached_audio
CacheHit(cached_audio) == Truthy(cached_audio)

\* lines 131-138: the engine is constructed for en, hi or mr only
EngineAccepts(lang) == lang = "en" \/ lang = "hi" \/ lang = "mr"

\* line 151: lang or 'en'
LangOrEn(lang) == IF Truthy(lang) THEN lang ELSE "en"

\* mutant: line 179 compares with the wrong status
IsCachedStatus_Generated(cache_status) == cache_status = "generated"

\* line 179
IsCachedStatus(cache_status) == cache_status = "cached"

\* what generate_audio_response hands back: a returned triple, or an
\* exception leaving the function
Returned(audio, lang, cache_hit) ==
  [audio |-> audio, lang |-> lang, cache_hit |-> cache_hit, raised |-> FALSE]

\* mutant: the exception is not caught
OnException_Propagates(lang_preference) ==
  [audio |-> None, lang |-> None, cache_hit |-> FALSE, raised |-> TRUE]

\* lines 185-187: except Exception
OnException(lang_preference) == Returned(None, PreferenceOrEn(lang_preference), FALSE)

\* lines 172-183: the triple built from text_to_speech's (audio, lang, status)
FromTts(audio_bytes, final_lang, cache_status) ==
  Returned(audio_bytes, final_lang, IsCachedStatus(cache_status))

NoResult == [audio |-> None, lang |-> None, cache_hit |-> FALSE, raised |-> FALSE]
NoArgs   == [text |-> NoText, lang_preference |-> None, speed |-> 0]
NoFrame  == [clean_text |-> <<>>, lang |-> None, cached_audio |-> None, audio_bytes |-> None]

(***************************************************************************)
(* State                                                                   *)
(***************************************************************************)

VARIABLES
  TTS_AVAILABLE,  \* lines 14-23: whether the TTS dependencies imported
  audio_cache,    \* core.cache_manager._audio_cache: key -> bytes
  pc,             \* per worker: "idle", "synth" (before the engine call),
                  \* "store" (before cache_audio), "done" (returned)
  args,           \* per worker: the arguments of its call
  frame,          \* per worker: the locals clean_text, lang, cached_audio, audio_bytes
  result,         \* per worker: what its call returned
  touched,        \* per worker: the collaborators its call invoked
  failed,         \* per worker: why its call failed, or "no"
  overlap,        \* per worker: the workers in flight at some time during its call
  ticket,         \* per worker: the number of its call, in order of arrival
  ncalls,         \* calls started
  engine_calls,   \* gTTS invocations
  sample,         \* the classifier's input text
  label           \* what detect_language returned for sample, or "pending"

vars == <<TTS_AVAILABLE, audio_cache, pc, args, frame, result, touched, failed,
          overlap, ticket, ncalls, engine_calls, sample, label>>

pipeline == <<TTS_AVAILABLE, audio_cache, pc, args, frame, result, touched, failed,
              overlap, ticket, ncalls, engine_calls>>

EmptyCache == [k \in {} |-> None]

InFlight(v) == pc[v] \in {"synth", "store"}

\* the cache key of worker w's call
KeyOf(w) == get_audio_hash(frame[w].clean_text, frame[w].lang, args[w].speed)

InitPipeline ==
  /\ TTS_AVAILABLE \in BOOLEAN
  /\ audio_cache = EmptyCache
  /\ pc = [w \in Workers |-> "idle"]
  /\ args = [w \in Workers |-> NoArgs]
  /\ frame = [w \in Workers |-> NoFrame]
  /\ result = [w \in Workers |-> NoResult]
  /\ touched = [w \in Workers |-> {}]
  /\ failed = [w \in Workers |-> "no"]
  /\ overlap = [w \in Workers |-> {}]
  /\ ticket = [w \in Workers |-> 0]
  /\ ncalls = 0
  /\ engine_calls = 0

Init ==
  /\ InitPipeline
  /\ sample = <<>>
  /\ label = "pending"

(***************************************************************************)
(* generate_audio_response, in the steps other workers can interleave with *)
(***************************************************************************)

\* worker w's call returns res
Finish(w, res, why, fr, tch) ==
  /\ pc' = [pc EXCEPT ![w] = "done"]
  /\ result' = [result EXCEPT ![w] = res]
  /\ failed' = [failed EXCEPT ![w] = why]
  /\ frame' = [frame EXCEPT ![w] = fr]
  /\ touched' = [touched EXCEPT ![w] = tch]

\* what the call does up to the engine call (lines 158-128), as
\* [next, res, why, fr, tch]
CallOutcome(avail, cache, a) ==
  LET clean  == Sanitize(a.text)
      target == TargetLang(a.lang_preference)
      auto   == ~Truthy(target)
      lang   == ResolveLang(avail, clean, target, auto)
      cls    == IF auto \/ ~Truthy(target) THEN {"classifier"} ELSE {}
      cached == get_cached_audio(cache, get_audio_hash(clean, lang, a.speed))
      out(next, res, why, fr, tch) ==
        [next |-> next, res |-> res, why |-> why, fr |-> fr, tch |-> tch]
  IN  IF ~avail
      THEN out("done", Returned(None, "en", FALSE), "unavailable", NoFrame, {})
      ELSE IF a.text = NoText
      THEN out("done", OnException(a.lang_preference), "sanitizer", NoFrame, {})
      ELSE IF TooShort(clean)
      THEN out("done", Returned(None, PreferenceOrEn(a.lang_preference), FALSE), "no",
               [NoFrame EXCEPT !.clean_text = clean], {})
      ELSE IF ~LangAllowed(lang)
      THEN out("done", FromTts(None, LangOrEn(lang), "error"), "language",
               [NoFrame EXCEPT !.clean_text = clean, !.lang = lang], cls)
      ELSE IF CacheHit(cached)
      THEN out("done", FromTts(cached, lang, "cached"), "no",
               [NoFrame EXCEPT !.clean_text = clean, !.lang = lang, !.cached_audio = cached],
               cls \cup {"cache_get"})
      ELSE out("synth", NoResult, "no",
               [NoFrame EXCEPT !.clean_text = clean, !.lang = lang, !.cached_audio = cached],
               cls \cup {"cache_get"})

Call(w, text, lang_preference, speed) ==
  LET a      == [text |-> text, lang_preference |-> lang_preference, speed |-> speed]
      o      == CallOutcome(TTS_AVAILABLE, audio_cache, a)
      others == {v \in Workers \ {w} : InFlight(v)}
  IN  /\ pc[w] = "idle"
      /\ ncalls < MaxCalls
      /\ ncalls' = ncalls + 1
      /\ args' = [args EXCEPT ![w] = a]
      /\ pc' = [pc EXCEPT ![w] = o.next]
      /\ result' = [result EXCEPT ![w] = o.res]
      /\ failed' = [failed EXCEPT ![w] = o.why]
      /\ frame' = [frame EXCEPT ![w] = o.fr]
      /\ touched' = [touched EXCEPT ![w] = o.tch]
      /\ overlap' = [v \in Workers |->
                       IF v = w THEN others
                       ELSE IF v \in others THEN overlap[v] \cup {w} ELSE overlap[v]]
      /\ ticket' = [ticket EXCEPT ![w] = ncalls + 1]
      /\ UNCHANGED <<TTS_AVAILABLE, audio_cache, engine_calls, sample, label>>

\* mutant: the except branch of lines 149-151 stores the failure under the
\* request's key
Synthesize_CachesFailure(w, out) ==
  /\ pc[w] = "synth"
  /\ IF ~EngineAccepts(frame[w].lang)
     THEN /\ Finish(w, FromTts(None, LangOrEn(frame[w].lang), "error"), "language",
                    frame[w], touched[w])
          /\ UNCHANGED <<engine_calls, audio_cache>>
     ELSE /\ engine_calls' = engine_calls + 1
          /\ IF out = "raise"
             THEN /\ Finish(w, FromTts(None, LangOrEn(frame[w].lang), "error"), "engine",
                            frame[w], touched[w] \cup {"engine"})
                  /\ audio_cache' = cache_audio(audio_cache, KeyOf(w), None)
             ELSE /\ pc' = [pc EXCEPT ![w] = "store"]
                  /\ frame' = [frame EXCEPT ![w].audio_bytes = out]
                  /\ touched' = [touched EXCEPT ![w] = @ \cup {"engine"}]
                  /\ UNCHANGED <<result, failed, audio_cache>>
  /\ UNCHANGED <<TTS_AVAILABLE, args, overlap, ticket, ncalls, sample, label>>

\* lines 131-144: construct gTTS for the language and write the audio; out is
\* the bytes written, or "raise"
Synthesize(w, out) ==
  /\ pc[w] = "synth"
  /\ IF ~EngineAccepts(frame[w].lang)
     THEN /\ Finish(w, FromTts(None, LangOrEn(frame[w].lang), "error"), "language",
                    frame[w], touched[w])
          /\ UNCHANGED engine_calls
     ELSE /\ engine_calls' = engine_calls + 1
          /\ IF out = "raise"
             THEN /\ Finish(w, FromTts(None, LangOrEn(frame[w].lang), "error"), "engine",
                            frame[w], touched[w] \cup {"engine"})
             ELSE /\ pc' = [pc EXCEPT ![w] = "store"]
                  /\ frame' = [frame EXCEPT ![w].audio_bytes = out]
                  /\ touched' = [touched EXCEPT ![w] = @ \cup {"engine"}]
                  /\ UNCHANGED <<result, failed>>
  /\ UNCHANGED <<TTS_AVAILABLE, audio_cache, args, overlap, ticket, ncalls, sample, label>>

\* lines 146-147 and 179-183: cache_audio, then return the generated audio
Store(w) ==
  /\ pc[w] = "store"
  /\ audio_cache' = cache_audio(audio_cache, KeyOf(w), frame[w].audio_bytes)
  /\ Finish(w, FromTts(frame[w].audio_bytes, frame[w].lang, "generated"), "no",
            frame[w], touched[w] \cup {"cache_put"})
  /\ UNCHANGED <<TTS_AVAILABLE, args, overlap, ticket, ncalls, engine_calls, sample, label>>

\* the worker takes its result and becomes free for the next request
Return(w) ==
  /\ pc[w] = "done"
  /\ pc' = [pc EXCEPT ![w] = "idle"]
  /\ args' = [args EXCEPT ![w] = NoArgs]
  /\ frame' = [frame EXCEPT ![w] = NoFrame]
  /\ result' = [result EXCEPT ![w] = NoResult]
  /\ touched' = [touched EXCEPT ![w] = {}]
  /\ failed' = [failed EXCEPT ![w] = "no"]
  /\ overlap' = [overlap EXCEPT ![w] = {}]
  /\ ticket' = [ticket EXCEPT ![w] = 0]
  /\ UNCHANGED <<TTS_AVAILABLE, audio_cache, ncalls, engine_calls, sample, label>>

Next ==
  \/ \E w \in Workers, text \in RawTexts, lang_preference \in Preferences, speed \in Speeds :
       Call(w, text, lang_preference, speed)
  \/ \E w \in Workers, out \in EngineBytes \cup {"raise"} : Synthesize(w, out)
  \/ \E w \in Workers : Store(w)
  \/ \E w \in Workers : Return(w)

Spec == Init /\ [][Next]_vars

(***************************************************************************)
(* detect_language on its own: every sentence over Vocabulary              *)
(***************************************************************************)

RECURSIVE Join(_)
\* " ".join(words), words given by their indices in Vocabulary
Join(ws) ==
  IF ws = <<>> THEN <<>>
  ELSE IF Len(ws) = 1 THEN Vocabulary[ws[1]]
  ELSE Vocabulary[ws[1]] \o <<32>> \o Join(Tail(ws))

WordLists == UNION {[1..n -> 1..Len(Vocabulary)] : n \in 0..MaxWords}

InitClassify ==
  /\ InitPipeline
  /\ \E ws \in WordLists : sample = Join(ws)
  /\ label = "pending"

DetectLanguage ==
  /\ label = "pending"
  /\ label' = detect_language(TTS_AVAILABLE, sample)
  /\ UNCHANGED <<pipeline, sample>>

NextClassify == DetectLanguage

SpecClassify == InitClassify /\ [][NextClassify]_vars

(***************************************************************************)
(* Properties                                                              *)
(***************************************************************************)

Done(w) == pc[w] = "done"

\* w's call directly follows v's: it arrived next, after v's call had
\* returned (v still holds its result), and no call was in flight during either
InSequence(v, w) ==
  /\ v # w
  /\ Done(v) /\ Done(w)
  /\ ticket[w] = ticket[v] + 1
  /\ overlap[v] = {} /\ overlap[w] = {}

\* C1 as stated, for a first call that reached the engine: a call that directly
\* repeats the previous call (same text, preference and speed, engine
\* available, no other call in between) returns the audio the previous call
\* returned and reports a cache hit, also when the previous call's synthesis
\* failed or produced empty bytes.
C1_RepeatAlwaysHits ==
  \A v, w \in Workers :
    (InSequence(v, w) /\ args[w] = args[v] /\ TTS_AVAILABLE /\ "engine" \in touched[v])
      => (result[w].audio = result[v].audio /\ result[w].cache_hit)

\* C1 amended: a call that directly repeats a call that returned non-empty
\* audio bytes returns those same bytes and reports a cache hit.
C1_RepeatAfterAudioHits ==
  \A v, w \in Workers :
    (InSequence(v, w) /\ args[w] = args[v] /\ TTS_AVAILABLE /\ Truthy(result[v].audio))
      => (result[w].audio = result[v].audio /\ result[w].cache_hit)

C1_Witness ==
  \E v, w \in Workers :
    /\ InSequence(v, w) /\ args[w] = args[v] /\ TTS_AVAILABLE
    /\ "engine" \in touched[v]
    /\ Truthy(result[v].audio)
    /\ result[w].audio = result[v].audio /\ result[w].cache_hit
    /\ engine_calls = 1

\* two calls whose executions overlapped and that looked up the same key
Concurrent(w, v) ==
  /\ w # v
  /\ v \in overlap[w] /\ w \in overlap[v]
  /\ "cache_get" \in touched[w] /\ "cache_get" \in touched[v]
  /\ KeyOf(w) = KeyOf(v)

C3_NoOverwrite ==
  [][\A k \in DOMAIN audio_cache :
       k \in DOMAIN audio_cache' /\ audio_cache'[k] = audio_cache[k]]_vars

\* C4: a call whose cleaned text has 4 characters or fewer returns no audio
\* and no cache hit, and invokes neither the classifier, the cache nor the
\* engine.
C4_ShortTextSkips ==
  \A w \in Workers :
    (Done(w) /\ args[w].text # NoText /\ Len(Sanitize(args[w].text)) <= 4)
      => /\ result[w].audio = None
         /\ ~result[w].cache_hit
         /\ ~result[w].raised
         /\ touched[w] = {}

C4_Witness ==
  \E w \in Workers :
    /\ Done(w) /\ TTS_AVAILABLE
    /\ args[w].text # NoText
    /\ Len(args[w].text) >= 5
    /\ Len(Sanitize(args[w].text)) = 4
    /\ result[w].audio = None
    /\ audio_cache # EmptyCache

\* C5: the cache is never read or written and the engine never invoked with a
\* language outside en, hi, mr.
C5_OnlySupportedLanguages ==
  /\ \A k \in DOMAIN audio_cache : k[2] \in Supported
  /\ \A w \in Workers :
       (InFlight(w) \/ touched[w] \cap {"cache_get", "engine", "cache_put"} # {})
         => frame[w].lang \in Supported

C5_Witness ==
  \E w \in Workers :
    /\ Done(w)
    /\ args[w].lang_preference = "fr"
    /\ failed[w] = "language"
    /\ frame[w].lang = "fr"
    /\ touched[w] = {}

\* C6 as stated: the language a call returns is one of en, hi, mr, for every
\* str text and every str preference.
C6_LanguageUsedSupported ==
  \A w \in Workers :
    (Done(w) /\ args[w].text # NoText /\ args[w].lang_preference # None)
      => result[w].lang \in Supported

\* C7: no exception leaves generate_audio_response; a call in which a step
\* failed returns no audio and no cache hit; and a call in flight can always
\* take its next step.
C7_NeverRaises ==
  \A w \in Workers :
    /\ Done(w) =>
         /\ ~result[w].raised
         /\ failed[w] # "no" => (result[w].audio = None /\ ~result[w].cache_hit)
    /\ pc[w] = "synth" => ENABLED Synthesize(w, "raise")
    /\ pc[w] = "store" => ENABLED Store(w)

C7_Witness ==
  \E w, v \in Workers :
    /\ Done(w) /\ failed[w] = "engine" /\ result[w].audio = None
    /\ Done(v) /\ failed[v] = "sanitizer" /\ result[v].audio = None

(***************************************************************************)
(* Properties of detect_language, checked under SpecClassify               *)
(***************************************************************************)

Labelled == label # "pending" /\ TTS_AVAILABLE

HasDevanagari(text) == \E i \in 1..Len(text) : IsDevanagari(text[i])
HasLatin(text) == \E i \in 1..Len(text) : IsLatin(text[i])
OnlyDevanagari(text) ==
  /\ HasDevanagari(text)
  /\ \A i \in 1..Len(text) : IsDevanagari(text[i]) \/ IsSpace(text[i])

\* matches of the Marathi pattern table plus the daily-word point
MarathiEvidence(text) ==
  TableScore(marathi_patterns, text)
    + (IF AnyWordIn(marathi_daily_words, text) THEN 1 ELSE 0)

\* matches of the Hindi pattern table plus the official-term point
HindiEvidence(text) ==
  TableScore(hindi_patterns, text)
    + (IF AnyWordIn(hindi_domain_words, text) THEN 1 ELSE 0)

\* C8 as stated: a text containing the Hindi copula classifies as hi.
C8_HindiCopulaDecides ==
  (Labelled /\ (Contains(sample, HAI) \/ Contains(sample, HAIN))) => label = "hi"

\* C8 amended: a text containing the Hindi copula classifies as hi when its
\* Marathi table matches and daily-word point total at most 1.
C8_HindiCopulaWinsSmallMarathi ==
  (/\ Labelled
   /\ Contains(sample, HAI) \/ Contains(sample, HAIN)
   /\ MarathiEvidence(sample) <= 1)
    => label = "hi"

C8_Witness ==
  /\ Labelled
  /\ Contains(sample, HAI)
  /\ MarathiEvidence(sample) = 1
  /\ EndsWith(sample, AAHE)
  /\ label = "hi"

\* C9 as stated: a text containing the Marathi copula and no Hindi copula
\* classifies as mr.
C9_MarathiCopulaDecides ==
  (Labelled /\ Contains(sample, AAHE) /\ ~Contains(sample, HAI) /\ ~Contains(sample, HAIN))
    => label = "mr"

\* C9 amended: a text containing the Marathi copula and no Hindi copula
\* classifies as mr when its Hindi table matches and official-term point total
\* at most 1.
C9_MarathiCopulaWinsSmallHindi ==
  (/\ Labelled
   /\ Contains(sample, AAHE) /\ ~Contains(sample, HAI) /\ ~Contains(sample, HAIN)
   /\ HindiEvidence(sample) <= 1)
    => label = "mr"

C9_Witness ==
  /\ Labelled
  /\ Contains(sample, AAHE) /\ ~Contains(sample, HAI)
  /\ HindiEvidence(sample) = 1
  /\ ~EndsWith(sample, AAHE) /\ ~EndsWith(sample, AAHET)
  /\ label = "mr"

\* C10 as stated: Latin letters without Devanagari classify as en; a text of
\* Devanagari characters only that matches no pattern of the Marathi table
\* classifies as hi.
C10_ScriptGating ==
  Labelled =>
    /\ (HasLatin(sample) /\ ~HasDevanagari(sample)) => label = "en"
    /\ (OnlyDevanagari(sample) /\ TableScore(marathi_patterns, sample) = 0) => label = "hi"

\* C10 amended: Latin letters without Devanagari classify as en; a text of
\* Devanagari characters only that matches no pattern of the Marathi table,
\* earns no Marathi copula points and contains no Marathi daily word
\* classifies as hi.
C10_ScriptGatingNoMarathiPoints ==
  Labelled =>
    /\ (HasLatin(sample) /\ ~HasDevanagari(sample)) => label = "en"
    /\ (/\ OnlyDevanagari(sample)
        /\ TableScore(marathi_patterns, sample) = 0
        /\ ~(Contains(sample, AAHE) /\ ~Contains(sample, HAI))
        /\ ~AnyWordIn(marathi_daily_words, sample)) => label = "hi"

C10_Witness ==
  /\ Labelled
  /\ OnlyDevanagari(sample)
  /\ TableScore(marathi_patterns, sample) = 0
  /\ Contains(sample, AAHE) /\ Contains(sample, HAI)
  /\ EndsWith(sample, AAHE)
  /\ label = "hi"

\* worker w's call returns a failure in this step
FailsNow(w) == pc[w] # "done" /\ pc'[w] = "done" /\ failed'[w] # "no"

\* this step is worker w storing, under its own key, the bytes its engine call
\* returned, and returning them as generated audio
StoresEngineBytes(w) ==
  /\ pc[w] = "store"
  /\ "engine" \in touched[w]
  /\ frame[w].audio_bytes \in EngineBytes
  /\ audio_cache' = cache_audio(audio_cache, KeyOf(w), frame[w].audio_bytes)
  /\ failed'[w] = "no"
  /\ result'[w].audio = frame[w].audio_bytes

\* C11: a request that fails (engine unavailable, text absent, language
\* rejected, engine call raising) leaves the audio cache as it was in the step
\* where it fails; the cache changes only when a worker stores, under its own
\* key, the bytes its engine call returned, so every entry holds engine bytes
\* and never a failure; and a call that directly repeats a failed call is never
\* answered from the cache, and calls the engine again when the failure was the
\* engine call raising.
C11_FailuresNeverCached ==
  /\ [](/\ \A k \in DOMAIN audio_cache : audio_cache[k] \in EngineBytes
        /\ \A v, w \in Workers :
             (InSequence(v, w) /\ args[w] = args[v] /\ failed[v] # "no")
               => (/\ ~result[w].cache_hit
                   /\ failed[v] = "engine" => "engine" \in touched[w]))
  /\ [][/\ (\E w \in Workers : FailsNow(w)) => audio_cache' = audio_cache
        /\ audio_cache' # audio_cache => \E w \in Workers : StoresEngineBytes(w)]_vars

\* a call whose engine call raised left nothing under its key, and the
\* identical call that followed reached the engine, got non-empty bytes and
\* stored them under that key
C11_Witness ==
  \E v, w \in Workers :
    /\ InSequence(v, w) /\ args[w] = args[v]
    /\ failed[v] = "engine" /\ result[v].audio = None
    /\ failed[w] = "no" /\ "engine" \in touched[w] /\ Truthy(result[w].audio)
    /\ KeyOf(w) = KeyOf(v)
    /\ DOMAIN audio_cache = {KeyOf(w)}
    /\ audio_cache[KeyOf(w)] = result[w].audio

====
